---- MODULE Spec2Model ----
(***************************************************************************)
(* Model of the Watchbill class of main.py: construction, the availability *)
(* rules (parse_list), the constraint model handed to the CP-SAT solver    *)
(* (build_model / solve_model) and the iterative assignment of develop().  *)
(*                                                                         *)
(* Matrices of booleans (schedule_conflicts, locked_in_days,               *)
(* final_schedule) are sets of pairs <<n, d>>: the cells that are True.    *)
(* Watchstanders are their indices 0..num_watchstanders-1, days are        *)
(* 0..num_days-1, as in the code.  Dates are day offsets from start_date.  *)
(* The solver is exact: Solve returns OPTIMAL with any one of the optimal  *)
(* solutions when the model is feasible, and another status otherwise.     *)
(***************************************************************************)
EXTENDS Integers, Sequences, FiniteSets, TLC

\* ---- bounds of the model ------------------------------------------------
MaxPeople == 3
MaxDays == 3
MaxSpacing == 2
MaxRules == 2
MaxHolidays == 0
\* holidays of the calendar in the specification of the day costs
MaxCostHolidays == 1
\* a rule's day may lie this many days before start_date or after end_date
RuleSlack == 1

\* ---- program constants ----------------------------------------------------
saturday_value == 7
sunday_value == 6
friday_value == 5
weekday_value == 4
DaysPerWeek == 7

VARIABLES
    num_watchstanders,      \* len(all_watchstanders)
    num_days,               \* (end_date - start_date).days + 1
    days_off_between_duty,
    first_monday,
    holiday_dates,          \* day indices (relative to start_date) the calendar calls holidays
    day_costs,
    schedule_conflicts,
    locked_in_days,
    final_schedule,
    min_days,
    max_days,
    pc,                     \* where the script is
    err,                    \* the exception raised, <<>> when none
    rules,                  \* number of parse_* calls made
    calls,                  \* iterate_assignment calls completed by develop()
    ctx,                    \* who called find_assignments: "round" or "trial"
    solver,                 \* the round's solver: the values of shifts it holds
    good_assignments,
    bad_assignments,
    which,                  \* 1: the loop of line 238 is at good_assignments, 2: at bad_assignments
    cand,                   \* position of the loop of line 248 in the subset
    min_variance,
    selected_watchstander,
    test_variance,
    commit_bounds,          \* history: <<min_days, max_days>> at each person's last permanent assign
    entry_bounds,           \* history: <<min_days, max_days>> when the current solve_model call began
    round_base,             \* history: final_schedule when the current iterate_assignment call began
    trial_base,             \* history: final_schedule before the first trial of the current subset
    trial_log,              \* history: the test_variance of each candidate tried in the current subset
    round_assigned,         \* history: the watchstanders assign() was called for in the round, trials apart
    first_solved            \* history: <<min_days, max_days>> when the first solve_model call of develop() returned, <<>> before

vars == <<num_watchstanders, num_days, days_off_between_duty, first_monday,
          holiday_dates, day_costs, schedule_conflicts, locked_in_days,
          final_schedule, min_days, max_days, pc, err, rules, calls, ctx,
          solver, good_assignments, bad_assignments, which, cand,
          min_variance, selected_watchstander, test_variance, commit_bounds,
          entry_bounds, round_base, trial_base, trial_log, round_assigned,
          first_solved>>

history == <<entry_bounds, round_base, trial_base, trial_log, round_assigned,
             first_solved>>

config_vars == <<num_watchstanders, num_days, days_off_between_duty,
                 first_monday, holiday_dates, day_costs>>

\* ---- helpers ----------------------------------------------------------------
People == 0 .. (num_watchstanders - 1)
all_days == 0 .. (num_days - 1)

RECURSIVE SumOver(_, _)
SumOver(f, S) ==
    IF S = {} THEN 0
    ELSE LET x == CHOOSE y \in S : TRUE IN f[x] + SumOver(f, S \ {x})

Min(S) == CHOOSE x \in S : \A y \in S : x <= y
Max(S) == CHOOSE x \in S : \A y \in S : x >= y

\* the ascending list of the members of a set of integers
RECURSIVE SortedSeq(_)
SortedSeq(S) ==
    IF S = {} THEN <<>>
    ELSE LET x == Min(S) IN <<x>> \o SortedSeq(S \ {x})

SeqSet(s) == {s[i] : i \in 1 .. Len(s)}

\* ---- __init__ and assign_day_costs ------------------------------------------
\* Saturdays and Sundays among 0..nd, plus the holidays the calendar returns
\* for start_date..end_date (indices 0..nd-1 only).
DayOffSet(fm, nd, hol) ==
    {i \in 0 .. nd : ((i - fm) % DaysPerWeek) \in {5, 6}}
        \cup {i \in hol : i >= 0 /\ i <= nd - 1}

AssignDayCosts(fm, nd, hol) ==
    LET day_off_set == DayOffSet(fm, nd, hol) IN
    [i \in 0 .. (nd - 1) |->
        IF i \in day_off_set
        THEN (IF (i + 1) \in day_off_set THEN saturday_value ELSE sunday_value)
        ELSE (IF (i + 1) \in day_off_set THEN friday_value ELSE weekday_value)]

InitMinDays(nd, nw) == nd \div nw
InitMaxDays(nd, nw) == IF nd % nw = 0 THEN nd \div nw ELSE (nd \div nw) + 1

Init ==
    /\ num_watchstanders \in 1 .. MaxPeople
    /\ num_days \in 1 .. MaxDays
    /\ days_off_between_duty \in 0 .. MaxSpacing
    /\ first_monday \in 0 .. (DaysPerWeek - 1)
    /\ holiday_dates \in {h \in SUBSET (0 .. num_days) : Cardinality(h) <= MaxHolidays}
    /\ day_costs = AssignDayCosts(first_monday, num_days, holiday_dates)
    /\ schedule_conflicts = {}
    /\ locked_in_days = {}
    /\ final_schedule = {}
    /\ min_days = InitMinDays(num_days, num_watchstanders)
    /\ max_days = InitMaxDays(num_days, num_watchstanders)
    /\ pc = "construct"
    /\ err = <<>>
    /\ rules = 0
    /\ calls = 0
    /\ ctx = "round"
    /\ solver = [d \in all_days |-> num_watchstanders]
    /\ good_assignments = <<>>
    /\ bad_assignments = <<>>
    /\ which = 1
    /\ cand = 1
    /\ min_variance = <<1, 0>>
    /\ selected_watchstander = -1
    /\ test_variance = <<0, 1>>
    /\ commit_bounds = [n \in People |-> <<>>]
    /\ entry_bounds = <<min_days, max_days>>
    /\ round_base = {}
    /\ trial_base = {}
    /\ trial_log = <<>>
    /\ round_assigned = {}
    /\ first_solved = <<>>

\* ---- parse_list ---------------------------------------------------------------
\* The rules tried: a name of the roster or one that is not on it (the value
\* num_watchstanders), a first day and optionally a last day, as day offsets
\* from start_date.
RuleDays == (0 - RuleSlack) .. (num_days - 1 + RuleSlack)

InLists ==
    {r \in [name : 0 .. num_watchstanders, first_day : RuleDays,
            last_day : RuleDays, has_end : BOOLEAN] :
        r.has_end \/ r.last_day = r.first_day}

\* a Python list of length num_days accepts the indices -num_days..num_days-1
IndexAccepted(i) == i >= 0 - num_days /\ i <= num_days - 1
ListIndex(i) == IF i < 0 THEN i + num_days ELSE i

\* the indices the loop of line 81 (or the single store of line 85) writes
\* before it ends or an index is refused
IndicesWritten(in_list) ==
    IF in_list.has_end
    THEN {i \in in_list.first_day .. in_list.last_day :
            \A j \in in_list.first_day .. i : IndexAccepted(j)}
    ELSE {i \in {in_list.first_day} : IndexAccepted(i)}

IndicesAsked(in_list) ==
    IF in_list.has_end THEN in_list.first_day .. in_list.last_day
    ELSE {in_list.first_day}

\* the exception parse_list ends with, <<>> when it returns
ParseListRaises(in_list) ==
    IF in_list.name \notin People THEN <<"ValueError">>
    ELSE IF \E i \in IndicesAsked(in_list) : ~IndexAccepted(i) THEN <<"IndexError">>
    ELSE <<>>

ParseList(in_list, out_list) ==
    IF in_list.name \notin People THEN out_list
    ELSE out_list \cup {<<in_list.name, ListIndex(i)>> : i \in IndicesWritten(in_list)}

ParseOutcome(in_list) ==
    /\ rules' = rules + 1
    /\ err' = ParseListRaises(in_list)
    /\ pc' = IF ParseListRaises(in_list) = <<>> THEN "construct" ELSE "raised"
    /\ UNCHANGED <<config_vars, final_schedule, min_days, max_days, calls, ctx,
                   solver, good_assignments, bad_assignments, which, cand,
                   min_variance, selected_watchstander, test_variance,
                   commit_bounds, history>>

parse_schedule_conflict(conflict) ==
    /\ pc = "construct"
    /\ rules < MaxRules
    /\ schedule_conflicts' = ParseList(conflict, schedule_conflicts)
    /\ UNCHANGED locked_in_days
    /\ ParseOutcome(conflict)

parse_locked_days(locked_day) ==
    /\ pc = "construct"
    /\ rules < MaxRules
    /\ locked_in_days' = ParseList(locked_day, locked_in_days)
    /\ UNCHANGED schedule_conflicts
    /\ ParseOutcome(locked_day)

ParseScheduleConflict == \E conflict \in InLists : parse_schedule_conflict(conflict)
ParseLockedDays == \E locked_day \in InLists : parse_locked_days(locked_day)

\* ---- is_assigned ----------------------------------------------------------------
is_assigned(fs, watchstander) == \E d \in all_days : <<watchstander, d>> \in fs

\* the watchstanders find_assignments and build_model treat as not assigned yet
NotAssigned(fs) == {n \in People : ~is_assigned(fs, n)}

\* ---- build_model -----------------------------------------------------------------
\* A value of the shifts variables is a function sh from the days to
\* 0..num_watchstanders: shifts[(n, d)] is 1 iff sh[d] = n, and
\* sh[d] = num_watchstanders when no variable of day d is 1.  Lines 112-116 make
\* the variables of a day sum to 0 or to 1, so no other values can be feasible.
ShiftValues == [all_days -> 0 .. num_watchstanders]

DaysWorked(sh, n) == {d \in all_days : sh[d] = n}

\* (a variant that lets a free day go without a shift: <= 1 for == 1)
OneShiftPerDayAtMost(fs, sh) ==
    \A d \in all_days :
        (\E n \in People : <<n, d>> \in fs) => sh[d] = num_watchstanders

\* (a variant without lines 113-114: == 1 for every day)
OneShiftEveryDay(fs, sh) ==
    \A d \in all_days : sh[d] # num_watchstanders

\* lines 112-116: one shift per day, none on a day somebody already holds
OneShiftPerDay(fs, sh) ==
    \A d \in all_days :
        IF \E n \in People : <<n, d>> \in fs
        THEN sh[d] = num_watchstanders
        ELSE sh[d] # num_watchstanders

\* (a variant without line 127, the upper limit)
NumDaysWorkedNoMaximum(fs, mn, mx, sh) ==
    \A n \in People :
        IF is_assigned(fs, n)
        THEN Cardinality(DaysWorked(sh, n)) = 0
        ELSE mn <= Cardinality(DaysWorked(sh, n))

\* (a variant without lines 122-123: min_days..max_days for everybody)
NumDaysWorkedForAll(fs, mn, mx, sh) ==
    \A n \in People :
        /\ mn <= Cardinality(DaysWorked(sh, n))
        /\ Cardinality(DaysWorked(sh, n)) <= mx

\* lines 117-127: nothing for the assigned, min_days..max_days for the others
NumDaysWorked(fs, mn, mx, sh) ==
    \A n \in People :
        IF is_assigned(fs, n)
        THEN Cardinality(DaysWorked(sh, n)) = 0
        ELSE /\ mn <= Cardinality(DaysWorked(sh, n))
             /\ Cardinality(DaysWorked(sh, n)) <= mx

\* lines 129-131: at most one duty day in each window d..d+days_off_between_duty,
\* for d in range(num_days - days_off_between_duty)
DaysOffBetweenDuty(sh) ==
    \A n \in People :
        \A d \in 0 .. (num_days - days_off_between_duty - 1) :
            Cardinality({i \in d .. (d + days_off_between_duty) : sh[i] = n}) <= 1

\* (a variant without lines 135-136, the schedule conflicts)
LockedDaysOnly(sh) ==
    \A n \in People :
        \A d \in all_days : <<n, d>> \in locked_in_days => sh[d] = n

\* lines 132-139: a conflict forces 0; otherwise (elif) a locked in day forces 1
ConflictsAndLockedDays(sh) ==
    \A n \in People :
        \A d \in all_days :
            IF <<n, d>> \in schedule_conflicts THEN sh[d] # n
            ELSE IF <<n, d>> \in locked_in_days THEN sh[d] = n
            ELSE TRUE

Constraints(fs, mn, mx, sh) ==
    /\ OneShiftPerDay(fs, sh)
    /\ ConflictsAndLockedDays(sh)
    /\ NumDaysWorked(fs, mn, mx, sh)
    /\ DaysOffBetweenDuty(sh)

Badness(sh, n) == SumOver(day_costs, DaysWorked(sh, n))

\* lines 141-151: with worst_deal >= and best_deal <= every unassigned
\* watchstander's badness, the least worst_deal - best_deal is the spread of
\* the badness; with nobody unassigned the objective is the same for all sh.
DealSpread(fs, sh) ==
    IF NotAssigned(fs) = {} THEN 0
    ELSE LET badness == {Badness(sh, n) : n \in NotAssigned(fs)}
         IN  Max(badness) - Min(badness)

\* ---- solver.Solve ---------------------------------------------------------------
FeasibleSolutions(fs, mn, mx) == {sh \in ShiftValues : Constraints(fs, mn, mx, sh)}

OptimalSolutions(fs, mn, mx) ==
    LET feasible == FeasibleSolutions(fs, mn, mx) IN
    IF feasible = {} THEN {}
    ELSE LET best == Min({DealSpread(fs, sh) : sh \in feasible}) IN
         {sh \in feasible : DealSpread(fs, sh) = best}

\* ---- find_assignments ------------------------------------------------------------
\* statistics.variance as the exact fraction <<numerator, denominator>>:
\* (k * sum(x^2) - sum(x)^2) / (k * (k - 1)) for k values, 0 for fewer than two.
Variance(fs, sh) ==
    LET open == NotAssigned(fs)
        k == Cardinality(open)
        s1 == SumOver([n \in open |-> Badness(sh, n)], open)
        s2 == SumOver([n \in open |-> Badness(sh, n) * Badness(sh, n)], open)
    IN  IF k > 1 THEN <<k * s2 - s1 * s1, k * (k - 1)>> ELSE <<0, 1>>

\* float('inf') is <<1, 0>>; fractions compare by cross multiplication
Infinity == <<1, 0>>

\* (a variant with > for the < of line 251)
Greater(a, b) == b[1] * a[2] < a[1] * b[2]

Less(a, b) == a[1] * b[2] < b[1] * a[2]
Same(a, b) == a[1] * b[2] = b[1] * a[2]

GoodAssignments(fs, sh) ==
    SortedSeq({n \in NotAssigned(fs) :
        \A m \in NotAssigned(fs) : Badness(sh, n) <= Badness(sh, m)})

BadAssignments(fs, sh) ==
    SortedSeq({n \in NotAssigned(fs) :
        \A m \in NotAssigned(fs) : Badness(sh, n) >= Badness(sh, m)})

\* ---- assign / unassign -----------------------------------------------------------
\* solver.Value(self.shifts[(watchstander, d)]) reads the round's solution: the
\* variables of every model are created in the same order, so a variable of a
\* later model names the same position of the round's solution.
\* (a variant whose loop over the days starts at day 1)
AssignFromSecondDay(fs, sv, watchstander) ==
    fs \cup {<<watchstander, d>> :
                d \in {x \in all_days : x >= 1 /\ sv[x] = watchstander}}

Assign(fs, sv, watchstander) ==
    fs \cup {<<watchstander, d>> : d \in {x \in all_days : sv[x] = watchstander}}

\* (a variant that leaves the loop after the first member)
AssignFirstOnly(fs, sv, list) ==
    IF list = <<>> THEN fs ELSE Assign(fs, sv, Head(list))

\* the loop of lines 234-235: assign for each member of a list
RECURSIVE AssignEach(_, _, _)
AssignEach(fs, sv, list) ==
    IF list = <<>> THEN fs
    ELSE AssignEach(Assign(fs, sv, Head(list)), sv, Tail(list))

\* (a variant whose loop over the days starts at day 1)
UnassignFromSecondDay(fs, watchstander) ==
    {c \in fs : c[1] # watchstander \/ c[2] = 0}

\* lines 215-216: the whole row is False again
Unassign(fs, watchstander) == {c \in fs : c[1] # watchstander}

\* ---- develop -----------------------------------------------------------------------
locals == <<solver, good_assignments, bad_assignments, which, cand,
            min_variance, selected_watchstander, test_variance>>

Develop ==
    /\ pc = "construct"
    /\ pc' = "solve"
    /\ ctx' = "round"
    /\ calls' = 0
    /\ entry_bounds' = <<min_days, max_days>>
    /\ round_base' = final_schedule
    /\ UNCHANGED <<config_vars, schedule_conflicts, locked_in_days, final_schedule,
                   min_days, max_days, err, rules, locals, commit_bounds,
                   trial_base, trial_log, round_assigned, first_solved>>

\* ---- solve_model -------------------------------------------------------------------
Solved == \E sh \in ShiftValues : Constraints(final_schedule, min_days, max_days, sh)

\* (a variant with any() for the all() of line 164)
AnyConflictDays ==
    {d \in all_days : \E n \in People : <<n, d>> \in schedule_conflicts}

\* line 164: the days on which every watchstander has a schedule conflict
ConflictDays ==
    {d \in all_days : \A n \in People : <<n, d>> \in schedule_conflicts}

\* lines 159-160, reached from iterate_assignment (line 229), then lines 187-198
SolveOptimalRound ==
    /\ pc = "solve"
    /\ ctx = "round"
    /\ \E sh \in OptimalSolutions(final_schedule, min_days, max_days) :
        /\ solver' = sh
        /\ good_assignments' = GoodAssignments(final_schedule, sh)
        /\ bad_assignments' = BadAssignments(final_schedule, sh)
    /\ pc' = "decide"
    /\ which' = 1
    /\ cand' = 1
    /\ min_variance' = Infinity
    /\ selected_watchstander' = -1
    /\ trial_log' = <<>>
    /\ round_assigned' = {}
    /\ first_solved' = IF calls = 0 THEN <<min_days, max_days>> ELSE first_solved
    /\ UNCHANGED <<config_vars, schedule_conflicts, locked_in_days, final_schedule,
                   min_days, max_days, err, rules, calls, ctx, test_variance,
                   commit_bounds, entry_bounds, round_base, trial_base>>

\* lines 159-160, reached from a trial (line 250): only the variance is kept
SolveOptimalTrial ==
    /\ pc = "solve"
    /\ ctx = "trial"
    /\ \E sh \in OptimalSolutions(final_schedule, min_days, max_days) :
        test_variance' = Variance(final_schedule, sh)
    /\ pc' = "trial_done"
    /\ UNCHANGED <<config_vars, schedule_conflicts, locked_in_days, final_schedule,
                   min_days, max_days, err, rules, calls, ctx, solver,
                   good_assignments, bad_assignments, which, cand, min_variance,
                   selected_watchstander, commit_bounds, history>>

\* lines 163-165
SolveScheduleConflict ==
    /\ pc = "solve"
    /\ ConflictDays # {}
    /\ ~Solved
    /\ pc' = "raised"
    /\ err' = <<"schedule conflict", Min(ConflictDays)>>
    /\ UNCHANGED <<config_vars, schedule_conflicts, locked_in_days, final_schedule,
                   min_days, max_days, rules, calls, ctx, locals, commit_bounds,
                   history>>

\* (a variant that lowers min_days and leaves max_days alone)
SolveRelaxKeepsMaximum ==
    /\ pc = "solve"
    /\ ConflictDays = {}
    /\ min_days > 0
    /\ ~Solved
    /\ max_days' = max_days
    /\ min_days' = min_days - 1
    /\ UNCHANGED <<config_vars, schedule_conflicts, locked_in_days, final_schedule,
                   pc, err, rules, calls, ctx, locals, commit_bounds, history>>

\* lines 167-171: looser limits, build_model and solve_model again
SolveRelax ==
    /\ pc = "solve"
    /\ ConflictDays = {}
    /\ min_days > 0
    /\ ~Solved
    /\ max_days' = max_days + 1
    /\ min_days' = min_days - 1
    /\ UNCHANGED <<config_vars, schedule_conflicts, locked_in_days, final_schedule,
                   pc, err, rules, calls, ctx, locals, commit_bounds, history>>

\* lines 173-175
SolveUnable ==
    /\ pc = "solve"
    /\ ConflictDays = {}
    /\ min_days <= 0
    /\ ~Solved
    /\ pc' = "raised"
    /\ err' = <<"Unable to solve model">>
    /\ UNCHANGED <<config_vars, schedule_conflicts, locked_in_days, final_schedule,
                   min_days, max_days, rules, calls, ctx, locals, commit_bounds,
                   history>>

\* ---- iterate_assignment ------------------------------------------------------------
\* iterate_assignment returns: develop() calls it again or is finished
IterateReturns ==
    /\ calls' = calls + 1
    /\ pc' = IF calls + 1 = num_watchstanders THEN "done" ELSE "solve"
    /\ ctx' = "round"
    /\ solver' = [d \in all_days |-> num_watchstanders]
    /\ good_assignments' = <<>>
    /\ bad_assignments' = <<>>
    /\ which' = 1
    /\ cand' = 1
    /\ min_variance' = Infinity
    /\ selected_watchstander' = -1
    /\ test_variance' = <<0, 1>>
    /\ entry_bounds' = IF calls + 1 = num_watchstanders THEN entry_bounds
                       ELSE <<min_days, max_days>>
    /\ round_base' = final_schedule'
    /\ trial_base' = {}
    /\ trial_log' = <<>>

\* (a variant whose loop of line 238 visits good_assignments only)
NextAssignmentsGoodOnly == IterateReturns

\* the loop of line 238 moves on to bad_assignments, or is finished
NextAssignments ==
    IF which = 2 THEN IterateReturns
    ELSE /\ which' = 2
         /\ cand' = 1
         /\ min_variance' = Infinity
         /\ selected_watchstander' = -1
         /\ trial_log' = <<>>
         /\ UNCHANGED <<pc, calls, ctx, solver, good_assignments, bad_assignments,
                        test_variance, entry_bounds, round_base, trial_base>>

assignments == IF which = 1 THEN good_assignments ELSE bad_assignments

Committed(cb, S) ==
    [n \in People |-> IF n \in S THEN <<min_days, max_days>> ELSE cb[n]]

\* line 231 is false: nobody is left unassigned
NobodyLeft ==
    /\ pc = "decide"
    /\ (good_assignments = <<>> \/ bad_assignments = <<>>)
    /\ UNCHANGED <<config_vars, schedule_conflicts, locked_in_days, final_schedule,
                   min_days, max_days, err, rules, commit_bounds, round_assigned,
                   first_solved>>
    /\ IterateReturns

\* lines 233-235
AssignAll ==
    /\ pc = "decide"
    /\ good_assignments # <<>>
    /\ bad_assignments # <<>>
    /\ good_assignments = bad_assignments
    /\ final_schedule' = AssignEach(final_schedule, solver, good_assignments)
    /\ commit_bounds' = Committed(commit_bounds, SeqSet(good_assignments))
    /\ round_assigned' = round_assigned \cup SeqSet(good_assignments)
    /\ IterateReturns
    /\ UNCHANGED <<config_vars, schedule_conflicts, locked_in_days, min_days,
                   max_days, err, rules, first_solved>>

Unfair ==
    /\ pc = "decide"
    /\ good_assignments # <<>>
    /\ bad_assignments # <<>>
    /\ good_assignments # bad_assignments

\* lines 240-241
AssignSingle ==
    /\ Unfair
    /\ Len(assignments) = 1
    /\ final_schedule' = Assign(final_schedule, solver, assignments[1])
    /\ commit_bounds' = Committed(commit_bounds, {assignments[1]})
    /\ round_assigned' = round_assigned \cup {assignments[1]}
    /\ NextAssignments
    /\ UNCHANGED <<config_vars, schedule_conflicts, locked_in_days, min_days,
                   max_days, err, rules, first_solved>>

\* lines 248-250: assign the candidate, then find_assignments
TrialAssign ==
    /\ Unfair
    /\ Len(assignments) # 1
    /\ cand <= Len(assignments)
    /\ final_schedule' = Assign(final_schedule, solver, assignments[cand])
    /\ pc' = "solve"
    /\ ctx' = "trial"
    /\ entry_bounds' = <<min_days, max_days>>
    /\ trial_base' = IF cand = 1 THEN final_schedule ELSE trial_base
    /\ UNCHANGED <<config_vars, schedule_conflicts, locked_in_days, min_days,
                   max_days, err, rules, calls, locals, commit_bounds,
                   round_base, trial_log, round_assigned, first_solved>>

\* lines 251-258: keep the candidate of least variance, flip a coin on a tie,
\* unassign the candidate
TrialEvaluate ==
    /\ pc = "trial_done"
    /\ \E coin \in 0 .. 1 :
        IF Less(test_variance, min_variance)
        THEN /\ selected_watchstander' = assignments[cand]
             /\ min_variance' = test_variance
        ELSE IF Same(test_variance, min_variance)
        THEN /\ selected_watchstander' =
                    IF coin = 1 THEN assignments[cand] ELSE selected_watchstander
             /\ UNCHANGED min_variance
        ELSE UNCHANGED <<selected_watchstander, min_variance>>
    /\ final_schedule' = Unassign(final_schedule, assignments[cand])
    /\ cand' = cand + 1
    /\ trial_log' = Append(trial_log, test_variance)
    /\ pc' = "decide"
    /\ ctx' = "round"
    /\ UNCHANGED <<config_vars, schedule_conflicts, locked_in_days, min_days,
                   max_days, err, rules, calls, solver, good_assignments,
                   bad_assignments, which, test_variance, commit_bounds,
                   entry_bounds, round_base, trial_base, round_assigned,
                   first_solved>>

\* line 259
AssignSelected ==
    /\ Unfair
    /\ Len(assignments) # 1
    /\ cand > Len(assignments)
    /\ final_schedule' = Assign(final_schedule, solver, selected_watchstander)
    /\ commit_bounds' = Committed(commit_bounds, {selected_watchstander})
    /\ round_assigned' = round_assigned \cup {selected_watchstander}
    /\ NextAssignments
    /\ UNCHANGED <<config_vars, schedule_conflicts, locked_in_days, min_days,
                   max_days, err, rules, first_solved>>

Next ==
    \/ ParseScheduleConflict
    \/ ParseLockedDays
    \/ Develop
    \/ SolveOptimalRound
    \/ SolveOptimalTrial
    \/ SolveScheduleConflict
    \/ SolveRelax
    \/ SolveUnable
    \/ NobodyLeft
    \/ AssignAll
    \/ AssignSingle
    \/ TrialAssign
    \/ TrialEvaluate
    \/ AssignSelected

Spec == Init /\ [][Next]_vars

\* ---- the day costs: construction with holidays, then develop() without rules ----
InitCosts ==
    /\ num_watchstanders \in 1 .. MaxPeople
    /\ num_days \in 1 .. MaxDays
    /\ days_off_between_duty \in 0 .. MaxSpacing
    /\ first_monday \in 0 .. (DaysPerWeek - 1)
    /\ holiday_dates \in {h \in SUBSET (0 .. num_days) : Cardinality(h) <= MaxCostHolidays}
    /\ day_costs = AssignDayCosts(first_monday, num_days, holiday_dates)
    /\ schedule_conflicts = {}
    /\ locked_in_days = {}
    /\ final_schedule = {}
    /\ min_days = InitMinDays(num_days, num_watchstanders)
    /\ max_days = InitMaxDays(num_days, num_watchstanders)
    /\ pc = "construct"
    /\ err = <<>>
    /\ rules = 0
    /\ calls = 0
    /\ ctx = "round"
    /\ solver = [d \in all_days |-> num_watchstanders]
    /\ good_assignments = <<>>
    /\ bad_assignments = <<>>
    /\ which = 1
    /\ cand = 1
    /\ min_variance = <<1, 0>>
    /\ selected_watchstander = -1
    /\ test_variance = <<0, 1>>
    /\ commit_bounds = [n \in People |-> <<>>]
    /\ entry_bounds = <<min_days, max_days>>
    /\ round_base = {}
    /\ trial_base = {}
    /\ trial_log = <<>>
    /\ round_assigned = {}
    /\ first_solved = <<>>

NextCosts ==
    \/ Develop
    \/ SolveOptimalRound
    \/ SolveOptimalTrial
    \/ SolveRelax
    \/ SolveUnable
    \/ NobodyLeft
    \/ AssignAll
    \/ AssignSingle
    \/ TrialAssign
    \/ TrialEvaluate
    \/ AssignSelected

SpecCosts == InitCosts /\ [][NextCosts]_vars

\* ==== properties ===================================================================
Returned == pc = "done"
DevelopCalled == pc \in {"solve", "decide", "trial_done", "done"} \/ Len(err) = 2
                    \/ err = <<"Unable to solve model">>
OnDutyFinal(d) == {p \in People : <<p, d>> \in final_schedule}
DutyDays(p) == {d \in all_days : <<p, d>> \in final_schedule}
EveryoneConflicted(d) == \A p \in People : <<p, d>> \in schedule_conflicts
BothMarked == schedule_conflicts \cap locked_in_days

\* C1: when develop() has returned, every day 0..num_days-1 has exactly one
\* person whose final_schedule cell is true.
C1_EveryDayOnePerson ==
    Returned => \A d \in all_days : Cardinality(OnDutyFinal(d)) = 1

\* develop() has returned for three people and three days of unequal cost, with
\* one person on each day
C1_Witness ==
    /\ Returned
    /\ num_watchstanders = 3
    /\ num_days = 3
    /\ day_costs[0] # day_costs[2]
    /\ \A d \in all_days : Cardinality(OnDutyFinal(d)) = 1

\* C2: in every state, also inside a speculative trial, no cell of
\* final_schedule is true where schedule_conflicts is true.
C2_NoDutyOnConflict == schedule_conflicts \cap final_schedule = {}

\* inside a trial: the model is being solved with a candidate tentatively
\* assigned who has a schedule conflict on another day
C2_Witness ==
    /\ pc = "solve"
    /\ ctx = "trial"
    /\ \E c \in schedule_conflicts : DutyDays(c[1]) # {}
    /\ schedule_conflicts \cap final_schedule = {}

\* C3: when develop() has returned, every locked in cell is true in
\* final_schedule.
C3_LockedDaysKept == Returned => locked_in_days \subseteq final_schedule

\* C4: 'Unable to solve model' is raised only when no assignment gives every
\* day one person and respects the spacing rule, the conflicts and the locked
\* in days with the duty bounds fully relaxed (min_days 0, and max_days the
\* largest value the relaxation of lines 167-169 reaches).
LoosestMaxDays ==
    InitMaxDays(num_days, num_watchstanders) + InitMinDays(num_days, num_watchstanders)

AssignmentExists == \E sh \in ShiftValues : Constraints({}, 0, LoosestMaxDays, sh)

C4_UnableOnlyWhenInfeasible ==
    (pc = "raised" /\ err = <<"Unable to solve model">>) => ~AssignmentExists

\* C5: when develop() has returned, two duty days of one person are more than
\* days_off_between_duty apart, for every spacing and every range length.
C5_SpacingKept ==
    Returned =>
        \A p \in People : \A d1, d2 \in DutyDays(p) :
            d1 < d2 => d2 - d1 > days_off_between_duty

\* C6: when develop() has returned, every person has a true cell in their
\* final_schedule row (is_assigned), whatever the roster size and range length.
C6_EveryoneAssigned ==
    Returned => \A p \in People : is_assigned(final_schedule, p)

\* C6 as amended: when develop() has returned with min_days still at least 1,
\* every person has a true cell in their final_schedule row; only with
\* min_days = 0 can a person end without a duty day.
C6_EveryoneAssignedUnlessMinZero ==
    (Returned /\ min_days >= 1) => \A p \in People : is_assigned(final_schedule, p)

\* develop() has returned for a roster of two or more with schedule conflicts,
\* min_days at least 1, and everybody holds a duty day
C6_Witness ==
    /\ Returned
    /\ min_days >= 1
    /\ num_watchstanders >= 2
    /\ schedule_conflicts # {}
    /\ \A p \in People : is_assigned(final_schedule, p)

\* C7: when develop() has returned, the number of duty days of each person lies
\* within the min_days..max_days in force when the person was permanently
\* assigned; and if the limits were never relaxed, within
\* floor(num_days/num_watchstanders)..ceil(num_days/num_watchstanders).
C7_DutyDaysWithinBounds ==
    Returned =>
        /\ \A p \in People :
              commit_bounds[p] # <<>> =>
                  /\ commit_bounds[p][1] <= Cardinality(DutyDays(p))
                  /\ Cardinality(DutyDays(p)) <= commit_bounds[p][2]
        /\ min_days = InitMinDays(num_days, num_watchstanders) =>
              \A p \in People :
                  /\ InitMinDays(num_days, num_watchstanders) <= Cardinality(DutyDays(p))
                  /\ Cardinality(DutyDays(p)) <= InitMaxDays(num_days, num_watchstanders)

\* develop() has returned after a relaxation: everybody was permanently
\* assigned within the limits then in force, somebody with more days than the
\* max_days of the constructor
C7_Witness ==
    /\ Returned
    /\ min_days < InitMinDays(num_days, num_watchstanders)
    /\ num_watchstanders >= 2
    /\ \A p \in People :
          /\ commit_bounds[p] # <<>>
          /\ commit_bounds[p][1] <= Cardinality(DutyDays(p))
          /\ Cardinality(DutyDays(p)) <= commit_bounds[p][2]
    /\ \E p \in People :
          Cardinality(DutyDays(p)) > InitMaxDays(num_days, num_watchstanders)

\* C8: if every person has a schedule conflict on some day, develop() fails in
\* its first round, naming the lowest such day, with min_days and max_days as
\* constructed and nothing in final_schedule.
C8_ConflictDayReported ==
    (DevelopCalled /\ \E d \in all_days : EveryoneConflicted(d)) =>
        /\ calls = 0
        /\ ctx = "round"
        /\ final_schedule = {}
        /\ min_days = InitMinDays(num_days, num_watchstanders)
        /\ max_days = InitMaxDays(num_days, num_watchstanders)
        /\ pc \in {"solve", "raised"}
        /\ pc = "solve" =>
              /\ ENABLED SolveScheduleConflict
              /\ ~ENABLED SolveOptimalRound
              /\ ~ENABLED SolveRelax
              /\ ~ENABLED SolveUnable
        /\ pc = "raised" =>
              err = <<"schedule conflict",
                      Min({d \in all_days : EveryoneConflicted(d)})>>

\* develop() has failed naming a day that is not the first of the range, for
\* a roster of two or more, some of whom are free on an earlier day
C8_Witness ==
    /\ pc = "raised"
    /\ Len(err) = 2
    /\ err[2] > 0
    /\ num_watchstanders >= 2
    /\ EveryoneConflicted(err[2])
    /\ \E c \in schedule_conflicts : c[2] < err[2]

\* C9: develop() never returns a schedule for a configuration that marks
\* some (person, day) both conflict and locked in.
C9_BothMarkedRejected == BothMarked # {} => ~Returned

\* C10: a rule whose first or last day is outside 0..num_days-1 raises and
\* marks nothing; a rule within the range marks exactly its day or its
\* inclusive range for its person.
RuleInRange(in_list) ==
    /\ in_list.first_day \in all_days
    /\ in_list.has_end => in_list.last_day \in all_days

RuleObeyed(in_list, before, after) ==
    IF RuleInRange(in_list)
    THEN /\ err' = <<>>
         /\ after = before \cup {<<in_list.name, i>> : i \in IndicesAsked(in_list)}
    ELSE /\ err' # <<>>
         /\ after = before

C10_OutOfRangeRefused ==
    [][\A in_list \in {r \in InLists : r.name \in People} :
          /\ parse_schedule_conflict(in_list) =>
                RuleObeyed(in_list, schedule_conflicts, schedule_conflicts')
          /\ parse_locked_days(in_list) =>
                RuleObeyed(in_list, locked_in_days, locked_in_days')]_vars

\* C11: day_costs[i] is 7, 6, 5 or 4 as (day i, day i+1) is off-off, off-work,
\* work-off or work-work, a day being off iff it is a Saturday, a Sunday or a
\* holiday of the calendar; the day after end_date is classified the same way.
IsDayOff(i) ==
    \/ ((i - first_monday) % DaysPerWeek) \in {5, 6}
    \/ i \in holiday_dates

C11_DayCosts ==
    \A i \in all_days :
        day_costs[i] =
            IF IsDayOff(i)
            THEN (IF IsDayOff(i + 1) THEN saturday_value ELSE sunday_value)
            ELSE (IF IsDayOff(i + 1) THEN friday_value ELSE weekday_value)

\* C12: when a round begins (iterate_assignment's build/solve, before any
\* relaxation of this call) and somebody is still open, min_days is the number
\* of unclaimed days integer-divided by the number of open people, and max_days
\* is min_days when the division is exact, min_days + 1 otherwise.
UnclaimedDays(fs) == {d \in all_days : \A n \in People : <<n, d>> \notin fs}

RoundStarts ==
    /\ pc = "solve"
    /\ ctx = "round"
    /\ <<min_days, max_days>> = entry_bounds

C12_BoundsRecomputed ==
    (RoundStarts /\ NotAssigned(final_schedule) # {}) =>
        LET openDays == Cardinality(UnclaimedDays(final_schedule))
            openPeople == Cardinality(NotAssigned(final_schedule))
        IN  /\ min_days = openDays \div openPeople
            /\ max_days = IF openDays % openPeople = 0 THEN min_days
                          ELSE min_days + 1

\* C13: a call of solve_model that began with bounds (m, M) has made k failed
\* attempts, k <= m, and its bounds are (m - k, M + k): min_days is never below
\* 0 and the bounds never tighten; while the call runs one of its branches can
\* be taken; and a call that raises ends with the unsatisfiable error, at
\* min_days = 0.
Relaxations == entry_bounds[1] - min_days

RelaxedInStep ==
    /\ Relaxations \in 0 .. entry_bounds[1]
    /\ min_days >= 0
    /\ max_days = entry_bounds[2] + Relaxations

SolveCanStep ==
    pc = "solve" =>
        IF Solved
        THEN OptimalSolutions(final_schedule, min_days, max_days) # {}
        ELSE \/ ENABLED SolveRelax
             \/ ENABLED SolveUnable
             \/ ENABLED SolveScheduleConflict

SolveRaised == pc = "raised" /\ err[1] \notin {"ValueError", "IndexError"}

C13_SolveEndsOptimalOrUnable ==
    /\ RelaxedInStep
    /\ SolveCanStep
    /\ SolveRaised => (err = <<"Unable to solve model">> /\ min_days = 0)

\* C13 (amended): as above, and a call that raises ends either with the
\* unsatisfiable error, at min_days = 0 and with no day on which everybody has
\* a conflict, or with the schedule conflict error for the first such day.
C13_SolveEndsOptimalUnableOrConflict ==
    /\ RelaxedInStep
    /\ SolveCanStep
    /\ SolveRaised =>
        \/ (err = <<"Unable to solve model">> /\ min_days = 0 /\ ConflictDays = {})
        \/ (ConflictDays # {} /\ err = <<"schedule conflict", Min(ConflictDays)>>)

\* a call that began at min_days >= 1 relaxed to 0 and raised
C13_Witness ==
    /\ SolveRaised
    /\ err = <<"Unable to solve model">>
    /\ entry_bounds[1] >= 1
    /\ min_days = 0

\* C14: in every state, those between a trial's assign and its unassign
\* included, each day has at most one true cell in final_schedule; and every
\* solution of a model just built gives nobody a day that already has a true
\* cell (all the day's variables are 0).
HoldersOf(fs, d) == {n \in People : <<n, d>> \in fs}

C14_OneHolderPerDay ==
    /\ \A d \in all_days : Cardinality(HoldersOf(final_schedule, d)) <= 1
    /\ pc = "solve" =>
        \A sh \in FeasibleSolutions(final_schedule, min_days, max_days) :
            \A d \in all_days :
                HoldersOf(final_schedule, d) # {} => sh[d] = num_watchstanders

\* a model is built inside a trial, with the candidate's days in final_schedule,
\* and has a solution
C14_Witness ==
    /\ pc = "solve"
    /\ ctx = "trial"
    /\ final_schedule # trial_base
    /\ Solved

\* C15: before each candidate's trial and after its unassign, final_schedule
\* is what it was before the first trial of the subset; during a trial only
\* the row of the one candidate differs from that value, and the candidate
\* held no day in it, so the rows of people who hold days are never touched.
Row(fs, n) == {d \in all_days : <<n, d>> \in fs}

BetweenTrials ==
    /\ Unfair
    /\ Len(assignments) > 1
    /\ cand > 1

InTrial == ctx = "trial" /\ pc \in {"solve", "trial_done"}

C15_TrialsRolledBack ==
    /\ BetweenTrials => final_schedule = trial_base
    /\ InTrial =>
        /\ ~is_assigned(trial_base, assignments[cand])
        /\ \A n \in People \ {assignments[cand]} :
                Row(final_schedule, n) = Row(trial_base, n)

\* a candidate that was given days by its trial has been unassigned
C15_Witness ==
    /\ BetweenTrials
    /\ Badness(solver, assignments[cand - 1]) > 0

\* C16: when the trials of a subset with more than one member are over, the
\* selected watchstander is a member of the subset whose trial variance is the
\* least of the variances of all the candidates, and the step that follows
\* adds to final_schedule exactly that watchstander's days of the round's
\* solution.
TrialsOver ==
    /\ Unfair
    /\ Len(assignments) > 1
    /\ cand > Len(assignments)

\* trial_log[k] <= trial_log[j] for every j, the variances being fractions
LeastVariance(k) ==
    \A j \in 1 .. Len(trial_log) :
        trial_log[k][1] * trial_log[j][2] <= trial_log[j][1] * trial_log[k][2]

C17_RowsWrittenInRound ==
    [][calls' = calls + 1 =>
        /\ IF good_assignments = bad_assignments
           THEN round_assigned' = NotAssigned(round_base)
           ELSE \E g \in SeqSet(good_assignments), b \in SeqSet(bad_assignments) :
                    g # b /\ round_assigned' = {g, b}
        /\ \A n \in People :
                Row(final_schedule', n) =
                    IF n \in round_assigned' THEN DaysWorked(solver, n)
                    ELSE Row(round_base, n)]_vars

\* a call has returned after writing the rows of two people out of three,
\* one of them found by trials
C17_Witness ==
    /\ calls >= 1
    /\ pc = "solve"
    /\ ctx = "round"
    /\ Cardinality(round_assigned) = 2
    /\ \E n \in People \ round_assigned : Row(final_schedule, n) = {}
    /\ \E n \in round_assigned : Row(final_schedule, n) # {}

\* C18: once every watchstander has been committed (assign was called for
\* each of them outside a trial) no model is built or solved any more, and
\* develop() does not end with an error raised by solve_model.
EveryoneFinalized == \A n \in People : commit_bounds[n] # <<>>

C18_NoSolveAfterLastCommit ==
    EveryoneFinalized => (pc # "solve" /\ ~SolveRaised)

\* C19: with no locked in days, once the first solve_model call of develop()
\* has returned a solution, every build/solve that follows (rounds, trials,
\* calls made when everybody holds days) is feasible at the bounds in force,
\* min_days and max_days stay what they were when that first call returned,
\* and develop() does not raise.
FirstSolveSucceeded == locked_in_days = {} /\ first_solved # <<>>

C19_FeasibleEverAfter ==
    FirstSolveSucceeded =>
        /\ pc # "raised"
        /\ <<min_days, max_days>> = first_solved
        /\ pc = "solve" => Solved

\* develop() has returned after a first call that had to relax the bounds
\* because of schedule conflicts
C19_Witness ==
    /\ FirstSolveSucceeded
    /\ pc = "done"
    /\ schedule_conflicts # {}
    /\ first_solved[1] < InitMinDays(num_days, num_watchstanders)

\* C20: an iterate_assignment call that began with an unclaimed day and
\* returns leaves fewer unclaimed days and more watchstanders holding a day
\* than when it began; and when develop() returns no day is unclaimed.
Holders(fs) == {n \in People : is_assigned(fs, n)}

C20_EveryCallClaimsDays ==
    [][calls' = calls + 1 =>
        /\ UnclaimedDays(round_base) # {} =>
            /\ Cardinality(UnclaimedDays(final_schedule')) <
                    Cardinality(UnclaimedDays(round_base))
            /\ Cardinality(Holders(final_schedule')) >
                    Cardinality(Holders(round_base))
        /\ pc' = "done" => UnclaimedDays(final_schedule') = {}]_vars

\* a call has returned after claiming days and has left a day to the next one
C20_Witness ==
    /\ calls >= 1
    /\ pc = "solve"
    /\ ctx = "round"
    /\ final_schedule # {}
    /\ UnclaimedDays(final_schedule) # {}

====
